---- MODULE Spec2Model ----
(***************************************************************************)
(* Model of html_generator.py: the attribute normalizer clean_attributes,  *)
(* the Tag node with its two serializers (__str__ and render), the tag()   *)
(* builder with the ul/li helpers, and generate_xml's build_xml_tree.      *)
(*                                                                         *)
(* Python text is a sequence of one-character strings, so that formatting, *)
(* joining and stripping are computed character by character.  Python      *)
(* objects are records with a kind field: "none", "str", "list", "tag",    *)
(* "int", "dict".                                                          *)
(***************************************************************************)
EXTENDS Integers, Sequences, FiniteSets, TLC

VARIABLES stack, kwargs, given, cleaned, compact, indented, xml

vars == <<stack, kwargs, given, cleaned, compact, indented, xml>>

(***************************************************************************)
(* Bounds of the model.                                                    *)
(***************************************************************************)
MaxItems == 3
MaxIndent == 1
MaxKwargs == 3
MaxLi == 3
MaxValueNodes == 3
MaxRssItems == 3

(***************************************************************************)
(* Text.                                                                   *)
(***************************************************************************)
NL == "\n"
SP == " "
IsSpace(c) == c \in {SP, NL}

Spaces(n) == [i \in 1..n |-> SP]

RECURSIVE Concat(_)
Concat(parts) ==
    IF parts = <<>> THEN <<>> ELSE Head(parts) \o Concat(Tail(parts))

\* sep.join(parts)
RECURSIVE Join(_, _)
Join(sep, parts) ==
    IF parts = <<>> THEN <<>>
    ELSE IF Len(parts) = 1 THEN parts[1]
    ELSE parts[1] \o sep \o Join(sep, Tail(parts))

\* The lines of a text: text.split("\n")
RECURSIVE SplitLines(_)
SplitLines(s) ==
    IF \A i \in 1..Len(s) : s[i] # NL THEN <<s>>
    ELSE LET k == CHOOSE i \in 1..Len(s) :
                      s[i] = NL /\ \A j \in 1..(i - 1) : s[j] # NL
         IN <<SubSeq(s, 1, k - 1)>> \o SplitLines(SubSeq(s, k + 1, Len(s)))

\* Whether sub occurs in s as a contiguous run of characters.
Contains(s, sub) ==
    \E i \in 0..(Len(s) - Len(sub)) : SubSeq(s, i + 1, i + Len(sub)) = sub

(***************************************************************************)
(* Python objects.                                                         *)
(***************************************************************************)
None == [kind |-> "none"]
PyStr(s) == [kind |-> "str", val |-> s]
PyList(items) == [kind |-> "list", val |-> items]
PyInt(n) == [kind |-> "int", val |-> n]
PyDict(items) == [kind |-> "dict", val |-> items]

\* Truth value of an object, as `or` tests it.
Truthy(x) ==
    CASE x.kind = "none" -> FALSE
      [] x.kind = "str" -> x.val # <<>>
      [] x.kind = "list" -> x.val # <<>>
      [] x.kind = "dict" -> x.val # <<>>
      [] x.kind = "int" -> x.val # 0
      [] OTHER -> TRUE

(***************************************************************************)
(* clean_attributes.  A dict is the sequence of its <<key, value>> items   *)
(* in insertion order, with unique keys.                                   *)
(***************************************************************************)
\* Variant of Rstrip: removes one trailing underscore only.
RstripMutKeepOne(key) ==
    IF key # <<>> /\ key[Len(key)] = "_" THEN SubSeq(key, 1, Len(key) - 1) ELSE key

\* key.rstrip('_')
RECURSIVE Rstrip(_)
Rstrip(key) ==
    IF key # <<>> /\ key[Len(key)] = "_"
    THEN Rstrip(SubSeq(key, 1, Len(key) - 1))
    ELSE key

Keys(d) == [i \in 1..Len(d) |-> d[i][1]]
HasKey(d, key) == \E i \in 1..Len(d) : d[i][1] = key

\* Variant of DictSet: an existing key keeps its first value.
DictSetMutKeepFirst(d, key, value) ==
    IF HasKey(d, key) THEN d ELSE Append(d, <<key, value>>)

\* d[key] = value: an existing key keeps its position and takes the new value.
DictSet(d, key, value) ==
    IF HasKey(d, key)
    THEN [i \in 1..Len(d) |-> IF d[i][1] = key THEN <<key, value>> ELSE d[i]]
    ELSE Append(d, <<key, value>>)

RECURSIVE CleanInto(_, _)
CleanInto(acc, items) ==
    IF items = <<>> THEN acc
    ELSE CleanInto(DictSet(acc, Rstrip(Head(items)[1]), Head(items)[2]), Tail(items))

clean_attributes(attributes) == CleanInto(<<>>, attributes)

(***************************************************************************)
(* Tag.                                                                    *)
(***************************************************************************)
\* Variant of ContentOrEmpty: only None becomes "", an empty list is kept.
ContentOrEmptyMutKeep(content) ==
    IF content.kind = "none" THEN PyStr(<<>>) ELSE content

\* content or ""
ContentOrEmpty(content) == IF Truthy(content) THEN content ELSE PyStr(<<>>)

\* Tag.__init__
Tag(name, content, is_single, attributes) ==
    [kind |-> "tag",
     name |-> name,
     content |-> ContentOrEmpty(content),
     is_single |-> is_single,
     attributes |-> clean_attributes(attributes)]

\* f'{key}="{value}"'
AttrPair(item) == item[1] \o <<"=", "\"">> \o item[2] \o <<"\"">>

\* Variant of Attrs: the attributes in reverse order.
AttrsMutReversed(attributes) ==
    LET n == Len(attributes)
        joined == Join(<<SP>>, [i \in 1..n |-> AttrPair(attributes[n + 1 - i])])
    IN IF joined # <<>> THEN <<SP>> \o joined ELSE joined

\* attrs, as __str__ and render both compute it
Attrs(attributes) ==
    LET joined == Join(<<SP>>, [i \in 1..Len(attributes) |-> AttrPair(attributes[i])])
    IN IF joined # <<>> THEN <<SP>> \o joined ELSE joined

\* Variant of SingleForm: an empty element with a closing tag.
SingleFormMutClosing(space, name, attrs) ==
    space \o <<"<">> \o name \o attrs \o <<">", "<", "/">> \o name \o <<">">>

\* f"{space}<{self.name}{attrs} />"
SingleForm(space, name, attrs) ==
    space \o <<"<">> \o name \o attrs \o <<SP, "/", ">">>

\* f"{space}<{self.name}{attrs}>{inner}</{self.name}>"
InlineForm(space, name, attrs, inner) ==
    space \o <<"<">> \o name \o attrs \o <<">">> \o inner
          \o <<"<", "/">> \o name \o <<">">>

\* Variant of BlockForm: the opening tag without its attributes.
BlockFormMutNoAttrs(space, name, attrs, inner) ==
    space \o <<"<">> \o name \o <<">", NL>> \o inner
          \o <<NL>> \o space \o <<"<", "/">> \o name \o <<">">>

\* f"{space}<{self.name}{attrs}>\n{inner}\n{space}</{self.name}>"
BlockForm(space, name, attrs, inner) ==
    space \o <<"<">> \o name \o attrs \o <<">", NL>> \o inner
          \o <<NL>> \o space \o <<"<", "/">> \o name \o <<">">>

\* Variant of TextLine: the text at the depth of its parent.
TextLineMutShallow(space, child) == space \o child.val

\* f"{space}  {child}"
TextLine(space, child) == space \o <<SP, SP>> \o child.val

\* "  " * indent
Indent(indent) == Spaces(2 * indent)

\* Tag.__str__; str(child) of a text child is the text itself
RECURSIVE Str(_)
Str(self) ==
    IF self.kind = "str" THEN self.val
    ELSE
    LET attrs == Attrs(self.attributes)
    IN IF self.is_single THEN SingleForm(<<>>, self.name, attrs)
       ELSE IF self.content.kind = "list"
       THEN InlineForm(<<>>, self.name, attrs,
                Concat([i \in 1..Len(self.content.val) |-> Str(self.content.val[i])]))
       ELSE InlineForm(<<>>, self.name, attrs, self.content.val)

\* Tag.render
RECURSIVE Render(_, _)
Render(self, indent) ==
    LET space == Indent(indent)
        attrs == Attrs(self.attributes)
    IN IF self.is_single THEN SingleForm(space, self.name, attrs)
       ELSE IF self.content.kind = "list"
       THEN BlockForm(space, self.name, attrs,
                Join(<<NL>>,
                     [i \in 1..Len(self.content.val) |->
                        LET child == self.content.val[i]
                        IN IF child.kind = "tag" THEN Render(child, indent + 1)
                           ELSE TextLine(space, child)]))
       ELSE InlineForm(space, self.name, attrs, self.content.val)

\* content = list(children) if children else None
TagContent(children) == IF children # <<>> THEN PyList(children) ELSE None

\* tag(name, *children, is_single=False, **attributes)
tag(name, children, is_single, attributes) ==
    Tag(name, TagContent(children), is_single, attributes)

\* def ul(*children, **attributes)
ul(children, attributes) == tag(<<"u", "l">>, children, FALSE, attributes)

\* Variant of li: the text is the content itself, not a list of one child.
liMutTextContent(content, attributes) ==
    Tag(<<"l", "i">>, content, FALSE, attributes)

\* def li(content, **attributes)
li(content, attributes) == tag(<<"l", "i">>, <<content>>, FALSE, attributes)

(***************************************************************************)
(* Building and serializing element trees.  The caller's values live on    *)
(* stack: a call of tag() takes its children from the top of the stack and *)
(* leaves the new node there.  compact and indented hold what str() and    *)
(* render() returned for the node on top of the stack.                     *)
(***************************************************************************)
Names == {<<"p">>, <<"a">>}
Texts == {<<>>, <<"x", NL, "y">>, <<SP, "x">>}
TreeKwargs == {<<>>, << <<<<"i", "d", "_">>, <<"1">>>> >>}

Top == stack[Len(stack)]
Building == compact = None /\ indented = None

\* Number of nodes and texts of a value.
RECURSIVE Weight(_)
RECURSIVE WeightAll(_)
Weight(x) ==
    CASE x.kind = "tag" ->
           1 + (IF x.content.kind = "list" THEN WeightAll(x.content.val) ELSE 0)
      [] x.kind = "list" -> 1 + WeightAll(x.val)
      [] x.kind = "dict" -> 1 + WeightAll([i \in 1..Len(x.val) |-> x.val[i][2]])
      [] OTHER -> 1
WeightAll(items) ==
    IF items = <<>> THEN 0 ELSE Weight(Head(items)) + WeightAll(Tail(items))

Init ==
    /\ stack = <<>>
    /\ kwargs = <<>>
    /\ given = None
    /\ cleaned = <<>>
    /\ compact = None
    /\ indented = None
    /\ xml = <<>>

PushText ==
    \E t \in Texts :
        /\ Building
        /\ WeightAll(stack) < MaxItems
        /\ stack' = Append(stack, PyStr(t))
        /\ UNCHANGED <<kwargs, given, cleaned, compact, indented, xml>>

TagCall ==
    \E name \in Names, k \in 0..Len(stack), is_single \in BOOLEAN,
       attributes \in TreeKwargs :
        /\ Building
        /\ WeightAll(stack) < MaxItems
        /\ stack' = Append(SubSeq(stack, 1, Len(stack) - k),
                           tag(name, SubSeq(stack, Len(stack) - k + 1, Len(stack)),
                               is_single, attributes))
        /\ UNCHANGED <<kwargs, given, cleaned, compact, indented, xml>>

StrCall ==
    /\ Len(stack) = 1
    /\ Top.kind = "tag"
    /\ compact = None
    /\ compact' = PyStr(Str(Top))
    /\ UNCHANGED <<stack, kwargs, given, cleaned, indented, xml>>

RenderCall ==
    \E indent \in 0..MaxIndent :
        /\ Len(stack) = 1
        /\ Top.kind = "tag"
        /\ indented = None
        /\ indented' = [kind |-> "str", val |-> Render(Top, indent), indent |-> indent]
        /\ UNCHANGED <<stack, kwargs, given, cleaned, compact, xml>>

Next == PushText \/ TagCall \/ StrCall \/ RenderCall

Spec == Init /\ [][Next]_vars

(***************************************************************************)
(* Properties of the two serializers.                                      *)
(***************************************************************************)
Rendered == indented # None
Stringified == compact # None

\* The nearest character before / after position i that is not whitespace
\* ("" when there is none).
PrevInk(s, i) ==
    LET js == {j \in 1..(i - 1) : ~IsSpace(s[j])}
    IN IF js = {} THEN "" ELSE s[CHOOSE j \in js : \A m \in js : m <= j]
NextInk(s, i) ==
    LET js == {j \in (i + 1)..Len(s) : ~IsSpace(s[j])}
    IN IF js = {} THEN "" ELSE s[CHOOSE j \in js : \A m \in js : j <= m]

RECURSIVE StripFrom(_, _)
StripFrom(s, i) ==
    IF i > Len(s) THEN <<>>
    ELSE IF IsSpace(s[i]) /\ (PrevInk(s, i) = ">" \/ NextInk(s, i) = "<")
         THEN StripFrom(s, i + 1)
         ELSE <<s[i]>> \o StripFrom(s, i + 1)

\* Removes every run of whitespace that follows a tag or precedes one.
StripBetweenTags(s) == StripFrom(s, 1)

IsText(x) == x.kind = "str"
TextTrimmed(t) == t = <<>> \/ (~IsSpace(t[1]) /\ ~IsSpace(t[Len(t)]))

\* No rendered text of the tree starts or ends with whitespace, and no two
\* text children are neighbours.
RECURSIVE WsSafe(_)
WsSafe(x) ==
    IF x.kind = "str" THEN TextTrimmed(x.val)
    ELSE IF x.is_single THEN TRUE
    ELSE IF x.content.kind = "list"
    THEN LET cs == x.content.val
         IN /\ \A i \in 1..Len(cs) : WsSafe(cs[i])
            /\ \A i \in 1..(Len(cs) - 1) : ~(IsText(cs[i]) /\ IsText(cs[i + 1]))
    ELSE TextTrimmed(x.content.val)

\* C1 as stated: for every tree, removing the whitespace between tags from
\* render(0) gives exactly str().
C1_StripGivesCompact ==
    (Rendered /\ Stringified /\ indented.indent = 0)
        => StripBetweenTags(indented.val) = compact.val

\* C1 as amended: for every tree in which no rendered text starts or ends
\* with whitespace and no two text children are neighbours, removing the
\* whitespace between tags from render(0) gives exactly str().
C1_StripGivesCompactWhenTextSafe ==
    (Rendered /\ Stringified /\ indented.indent = 0 /\ WsSafe(Top))
        => StripBetweenTags(indented.val) = compact.val

C1_Witness ==
    /\ Rendered /\ Stringified /\ indented.indent = 0 /\ WsSafe(Top)
    /\ ~Top.is_single /\ Top.content.kind = "list"
    /\ Top.attributes # <<>>
    /\ \E i, j \in 1..Len(Top.content.val) :
          /\ IsText(Top.content.val[i]) /\ Top.content.val[i].val # <<>>
          /\ Top.content.val[j].kind = "tag"
    /\ StripBetweenTags(indented.val) = compact.val
    /\ indented.val # compact.val

\* C3: a node with is_single set is serialized by str() and by render(d) as
\* <name attrs /> only (after the indentation, for render): no closing tag
\* and nothing of its content.
C3_SingleOnlyOpening ==
    (stack # <<>> /\ Top.kind = "tag" /\ Top.is_single) =>
        LET form == <<"<">> \o Top.name \o Attrs(Top.attributes) \o <<SP, "/", ">">>
        IN /\ Stringified =>
                /\ compact.val = form
                /\ ~Contains(compact.val, <<"<", "/">>)
           /\ Rendered =>
                /\ indented.val = Spaces(2 * indented.indent) \o form
                /\ ~Contains(indented.val, <<"<", "/">>)
                /\ ~Contains(indented.val, <<NL>>)

C3_Witness ==
    /\ Rendered /\ Stringified /\ Top.is_single
    /\ Top.content.kind = "list"
    /\ \E i, j \in 1..Len(Top.content.val) :
          /\ IsText(Top.content.val[i]) /\ Top.content.val[i].val # <<>>
          /\ Top.content.val[j].kind = "tag"

\* The lines render() is to produce for node x at depth d, each as the
\* number of leading spaces and the text after them.
RECURSIVE LinesOf(_, _)
LinesOf(x, d) ==
    LET open == <<"<">> \o x.name \o Attrs(x.attributes) \o <<">">>
        close == <<"<", "/">> \o x.name \o <<">">>
    IN IF x.is_single
       THEN << [lead |-> 2 * d,
                body |-> <<"<">> \o x.name \o Attrs(x.attributes) \o <<SP, "/", ">">>] >>
       ELSE IF x.content.kind = "list"
       THEN <<[lead |-> 2 * d, body |-> open]>>
            \o Concat([i \in 1..Len(x.content.val) |->
                         LET child == x.content.val[i]
                         IN IF child.kind = "tag" THEN LinesOf(child, d + 1)
                            ELSE <<[lead |-> 2 * (d + 1), body |-> child.val]>>])
            \o <<[lead |-> 2 * d, body |-> close]>>
       ELSE <<[lead |-> 2 * d, body |-> open \o x.content.val \o close]>>

\* Whether some text of the tree holds a line break of its own.
RECURSIVE HasBreak(_)
HasBreak(x) ==
    IF x.kind = "str" THEN Contains(x.val, <<NL>>)
    ELSE IF x.content.kind = "list"
    THEN \E i \in 1..Len(x.content.val) : HasBreak(x.content.val[i])
    ELSE Contains(x.content.val, <<NL>>)

KwKeys == {<<"i", "d", "_">>, <<"i", "d", "_", "_">>, <<"x", "_">>, <<"y">>}
KwValues == {<<"1">>, <<"2">>}
NodeContents ==
    {None, PyStr(<<>>), PyStr(<<"x">>), PyList(<<>>), PyList(<<PyStr(<<"x">>)>>)}
NodeChildren == {<<>>, <<PyStr(<<"x">>)>>}

SupplyKwarg ==
    \E key \in KwKeys, value \in KwValues :
        /\ stack = <<>>
        /\ cleaned = <<>>
        /\ Len(kwargs) < MaxKwargs
        /\ ~HasKey(kwargs, key)
        /\ kwargs' = Append(kwargs, <<key, value>>)
        /\ UNCHANGED <<stack, given, cleaned, compact, indented, xml>>

CleanCall ==
    /\ stack = <<>>
    /\ Len(cleaned) < 2
    /\ cleaned' = IF cleaned = <<>>
                  THEN <<clean_attributes(kwargs)>>
                  ELSE Append(cleaned, clean_attributes(cleaned[Len(cleaned)]))
    /\ UNCHANGED <<stack, kwargs, given, compact, indented, xml>>

NewTag ==
    \E name \in Names, content \in NodeContents, is_single \in BOOLEAN :
        /\ stack = <<>>
        /\ cleaned = <<>>
        /\ stack' = <<Tag(name, content, is_single, kwargs)>>
        /\ given' = content
        /\ UNCHANGED <<kwargs, cleaned, compact, indented, xml>>

TagNode ==
    \E name \in Names, children \in NodeChildren, is_single \in BOOLEAN :
        /\ stack = <<>>
        /\ cleaned = <<>>
        /\ stack' = <<tag(name, children, is_single, kwargs)>>
        /\ given' = TagContent(children)
        /\ UNCHANGED <<kwargs, cleaned, compact, indented, xml>>

NextNode == SupplyKwarg \/ CleanCall \/ NewTag \/ TagNode \/ StrCall \/ RenderCall

SpecNode == Init /\ [][NextNode]_vars

(***************************************************************************)
(* Properties of the attributes and of a single node.                      *)
(***************************************************************************)
Underscores(n) == [i \in 1..n |-> "_"]

\* out is key without all its trailing underscores.
IsStripOf(out, key) ==
    /\ out = <<>> \/ out[Len(out)] # "_"
    /\ \E n \in 0..Len(key) : key = out \o Underscores(n)

\* The key without all its trailing underscores.
Stripped(key) ==
    SubSeq(key, 1, CHOOSE n \in 0..Len(key) :
                       /\ n = 0 \/ key[n] # "_"
                       /\ \A m \in (n + 1)..Len(key) : key[m] = "_")

SameAttr(kw, i, j) == Stripped(kw[i][1]) = Stripped(kw[j][1])
Collides(kw) == \E i, j \in 1..Len(kw) : i # j /\ SameAttr(kw, i, j)
FirstOf(kw, i) == CHOOSE j \in 1..Len(kw) :
                      SameAttr(kw, i, j) /\ \A m \in 1..(j - 1) : ~SameAttr(kw, i, m)
LastOf(kw, i) == CHOOSE j \in 1..Len(kw) :
                     SameAttr(kw, i, j) /\ \A m \in (j + 1)..Len(kw) : ~SameAttr(kw, i, m)
\* How many distinct attributes the first i supplied keys name.
RankOf(kw, i) == Cardinality({FirstOf(kw, j) : j \in 1..i})

\* C8: clean_attributes is total and idempotent; every output key is an input
\* key without its trailing underscores, every input key has its output key,
\* and every output value is the unchanged value of an input key of that
\* name (of each one, in order, when no two input keys share a name).
C8_CleanIdempotent ==
    /\ Len(cleaned) >= 1 =>
         LET out == cleaned[1]
         IN /\ \A i \in 1..Len(out) : \E j \in 1..Len(kwargs) :
                  IsStripOf(out[i][1], kwargs[j][1]) /\ out[i][2] = kwargs[j][2]
            /\ \A j \in 1..Len(kwargs) : \E i \in 1..Len(out) :
                  IsStripOf(out[i][1], kwargs[j][1])
            /\ ~Collides(kwargs) =>
                  out = [j \in 1..Len(kwargs) |->
                            <<Stripped(kwargs[j][1]), kwargs[j][2]>>]
    /\ Len(cleaned) = 2 => cleaned[2] = cleaned[1]

C8_Witness ==
    /\ Len(cleaned) = 2
    /\ Len(kwargs) >= 2
    /\ ~Collides(kwargs)
    /\ \E j \in 1..Len(kwargs) : kwargs[j][1] = <<"i", "d", "_", "_">>
    /\ cleaned[1] # kwargs

NodeBuilt == stack # <<>> /\ Top.kind = "tag"

\* The opening tag the node on top of the stack is to have.
OpeningOf(x) ==
    <<"<">> \o x.name
        \o Concat([i \in 1..Len(x.attributes) |->
                      <<SP>> \o x.attributes[i][1] \o <<"=", "\"">>
                             \o x.attributes[i][2] \o <<"\"">>])
        \o (IF x.is_single THEN <<SP, "/", ">">> ELSE <<">">>)

StartsWith(s, prefix) == Len(prefix) <= Len(s) /\ SubSeq(s, 1, Len(prefix)) = prefix

\* C7: in both modes the opening tag lists the node's attributes in the order
\* they were supplied, each as key="value" under its normalized key, each
\* preceded by exactly one space, and the tag name is followed at once by
\* the end of the tag when there is no attribute.
C7_AttributesInSupplyOrder ==
    NodeBuilt =>
        /\ \A i \in 1..Len(kwargs) :
              Top.attributes[RankOf(kwargs, FirstOf(kwargs, i))][1]
                  = Stripped(kwargs[i][1])
        /\ Len(Top.attributes) = RankOf(kwargs, Len(kwargs))
        /\ ~Collides(kwargs) =>
              \A i \in 1..Len(kwargs) : Top.attributes[i][2] = kwargs[i][2]
        /\ Stringified => StartsWith(compact.val, OpeningOf(Top))
        /\ Rendered =>
              StartsWith(indented.val, Spaces(2 * indented.indent) \o OpeningOf(Top))

C7_Witness ==
    /\ NodeBuilt /\ Stringified /\ Rendered
    /\ Len(kwargs) = 3 /\ ~Collides(kwargs)
    /\ kwargs[1][1] = <<"x", "_">>
    /\ kwargs[2][1] = <<"i", "d", "_", "_">>
    /\ kwargs[3][1] = <<"y">>
    /\ kwargs[2][2] # kwargs[3][2]

\* How many times sub occurs in s.
Occurrences(s, sub) ==
    Cardinality({i \in 0..(Len(s) - Len(sub)) : SubSeq(s, i + 1, i + Len(sub)) = sub})

\* C10: when supplied keys differ only in trailing underscores the node keeps
\* one attribute for them: fewer attributes than were supplied, no key twice
\* in the tag, the value of the key supplied last, at the place of the key
\* supplied first.
C10_CollidingKeysMerge ==
    (NodeBuilt /\ Collides(kwargs)) =>
        /\ Len(Top.attributes) < Len(kwargs)
        /\ \A i, j \in 1..Len(Top.attributes) :
              i # j => Top.attributes[i][1] # Top.attributes[j][1]
        /\ \A i \in 1..Len(kwargs) :
              LET at == RankOf(kwargs, FirstOf(kwargs, i))
              IN /\ at <= Len(Top.attributes)
                 /\ Top.attributes[at]
                      = <<Stripped(kwargs[i][1]), kwargs[LastOf(kwargs, i)][2]>>
        /\ \A i \in 1..Len(Top.attributes) :
              LET shown == <<SP>> \o Top.attributes[i][1] \o <<"=", "\"">>
              IN /\ Stringified => Occurrences(compact.val, shown) = 1
                 /\ Rendered => Occurrences(indented.val, shown) = 1

C10_Witness ==
    /\ NodeBuilt /\ Stringified /\ Rendered
    /\ Len(kwargs) = 3
    /\ kwargs[1] = << <<"i", "d", "_">>, <<"1">> >>
    /\ kwargs[2][1] = <<"x", "_">>
    /\ kwargs[3] = << <<"i", "d", "_", "_">>, <<"2">> >>
    /\ Top.attributes = << <<<<"i", "d">>, <<"2">>>>, <<<<"x">>, kwargs[2][2]>> >>

EmptyListGiven == NodeBuilt /\ given = PyList(<<>>) /\ ~Top.is_single

\* C6 as stated: a node that is not single and was given a list of zero items
\* is <name attrs></name> in compact mode and, in indented mode, two lines:
\* the opening tag and the closing tag.
C6_EmptyListTwoLines ==
    EmptyListGiven =>
        LET space == Spaces(2 * indented.indent)
        IN /\ Stringified =>
                compact.val = OpeningOf(Top) \o <<"<", "/">> \o Top.name \o <<">">>
           /\ Rendered =>
                SplitLines(indented.val)
                  = <<space \o OpeningOf(Top),
                      space \o <<"<", "/">> \o Top.name \o <<">">> >>

\* C6 as amended: a node that is not single and was given a list of zero
\* items holds empty text, and is <name attrs></name> in compact mode and the
\* one line <name attrs></name> after the indentation in indented mode.
C6_EmptyListOneLine ==
    EmptyListGiven =>
        /\ Top.content = PyStr(<<>>)
        /\ Stringified =>
             compact.val = OpeningOf(Top) \o <<"<", "/">> \o Top.name \o <<">">>
        /\ Rendered =>
             /\ indented.val = Spaces(2 * indented.indent) \o OpeningOf(Top)
                                  \o <<"<", "/">> \o Top.name \o <<">">>
             /\ Len(SplitLines(indented.val)) = 1

C6_Witness ==
    /\ EmptyListGiven /\ Stringified /\ Rendered
    /\ indented.indent = 1
    /\ Len(Top.attributes) = 2

(***************************************************************************)
(* A list built with the ul and li helpers: each LiCall leaves an li node  *)
(* on the stack, UlCall passes them all to ul().                           *)
(***************************************************************************)
ListTexts == {<<"x">>, <<"y">>, <<"x", SP, "y">>}
IsLi(x) == x.kind = "tag" /\ x.name = <<"l", "i">>
IsUl(x) == x.kind = "tag" /\ x.name = <<"u", "l">>

LiCall ==
    \E content \in ListTexts :
        /\ Building
        /\ Len(stack) < MaxLi
        /\ \A i \in 1..Len(stack) : IsLi(stack[i])
        /\ stack' = Append(stack, li(PyStr(content), <<>>))
        /\ UNCHANGED <<kwargs, given, cleaned, compact, indented, xml>>

UlCall ==
    /\ Building
    /\ \A i \in 1..Len(stack) : IsLi(stack[i])
    /\ stack' = <<ul(stack, <<>>)>>
    /\ UNCHANGED <<kwargs, given, cleaned, compact, indented, xml>>

NextList == LiCall \/ UlCall \/ StrCall \/ RenderCall

SpecList == Init /\ [][NextList]_vars

\* The text child of an li built by li().
LiText(x) == x.content.val[1].val

UlRendered == Rendered /\ IsUl(Top) /\ indented.indent = 0
UlOfThree == UlRendered /\ Top.content.kind = "list" /\ Len(Top.content.val) = 3

\* C4 as stated: ul(li(t1), li(t2), li(t3)).render(0) is the line <ul>, one
\* line "  <li>t</li>" for each li, and the line </ul>.
C4_EachLiOnOneLine ==
    UlOfThree =>
        SplitLines(indented.val)
          = <<<<"<", "u", "l", ">">>>>
            \o [i \in 1..3 |-> <<SP, SP, "<", "l", "i", ">">> \o LiText(Top.content.val[i])
                                  \o <<"<", "/", "l", "i", ">">>]
            \o <<<<"<", "/", "u", "l", ">">>>>

\* C4 as amended: ul(li(t1), ..., li(tn)).render(0), n >= 1, is the line <ul>,
\* three lines for each li ("  <li>", the text after four spaces, "  </li>")
\* and the line </ul>: eleven lines for three li children.
C4_EachLiOnThreeLines ==
    (UlRendered /\ Top.content.kind = "list") =>
        LET n == Len(Top.content.val)
            lines == SplitLines(indented.val)
        IN /\ Len(lines) = 3 * n + 2
           /\ lines[1] = <<"<", "u", "l", ">">>
           /\ lines[3 * n + 2] = <<"<", "/", "u", "l", ">">>
           /\ \A i \in 1..n :
                 /\ lines[3 * i - 1] = <<SP, SP, "<", "l", "i", ">">>
                 /\ lines[3 * i] = <<SP, SP, SP, SP>> \o LiText(Top.content.val[i])
                 /\ lines[3 * i + 1] = <<SP, SP, "<", "/", "l", "i", ">">>

C4_Witness ==
    /\ UlOfThree
    /\ Len(SplitLines(indented.val)) = 11
    /\ LiText(Top.content.val[1]) # LiText(Top.content.val[2])
    /\ LiText(Top.content.val[2]) # LiText(Top.content.val[3])

(***************************************************************************)
(* generate_xml.  An Element is its tag, its text (None until set) and its *)
(* children in order.  build_xml_tree returns the parent as the code       *)
(* leaves it.  xml holds, for each generate_xml call, the arguments and    *)
(* the root element the call built; the file text is tostring() and        *)
(* minidom's rendering of that root.                                       *)
(***************************************************************************)
Digit(d) ==
    CASE d = 0 -> "0" [] d = 1 -> "1" [] d = 2 -> "2" [] d = 3 -> "3" [] d = 4 -> "4"
      [] d = 5 -> "5" [] d = 6 -> "6" [] d = 7 -> "7" [] d = 8 -> "8" [] OTHER -> "9"

RECURSIVE Decimal(_)
Decimal(n) == IF n < 10 THEN <<Digit(n)>> ELSE Decimal(n \div 10) \o <<Digit(n % 10)>>

\* str(data) of a scalar
StrOf(data) == IF data.kind = "int" THEN Decimal(data.val) ELSE data.val

ItemTag == <<"i", "t", "e", "m">>
TitleKey == <<"t", "i", "t", "l", "e">>

\* Element(tag)
Element(name) == [tag |-> name, text |-> None, children |-> <<>>]

\* Variant of SubElement: the child becomes the first child.
SubElementMutPrepend(parent, child) ==
    [parent EXCEPT !.children = <<child>> \o @]

\* SubElement(parent, tag), with the child as it is once the recursion returns
SubElement(parent, child) == [parent EXCEPT !.children = Append(@, child)]

RECURSIVE build_xml_tree(_, _)
RECURSIVE BuildEach(_, _, _)
build_xml_tree(parent, data) ==
    IF data.kind = "dict"
    THEN BuildEach(parent, Keys(data.val), [i \in 1..Len(data.val) |-> data.val[i][2]])
    ELSE IF data.kind = "list"
    THEN BuildEach(parent, [i \in 1..Len(data.val) |-> ItemTag], data.val)
    ELSE [parent EXCEPT !.text = PyStr(StrOf(data))]
\* The loop of either branch: one SubElement per tag, filled from its value.
BuildEach(parent, tags, values) ==
    IF tags = <<>> THEN parent
    ELSE BuildEach(SubElement(parent, build_xml_tree(Element(Head(tags)), Head(values))),
                   Tail(tags), Tail(values))

\* root = Element(root_name); build_xml_tree(root, data)
generate_xml(root_name, data) ==
    [root_name |-> root_name, data |-> data,
     root |-> build_xml_tree(Element(root_name), data)]

Scalars == {PyInt(1), PyStr(<<"A">>)}
XmlKeys == {TitleKey, ItemTag}
RootNames == {<<"r", "s", "s">>}
KeyLists == {<<>>} \cup {<<k>> : k \in XmlKeys}
               \cup {ks \in XmlKeys \X XmlKeys : ks[1] # ks[2]}

PushScalar ==
    \E value \in Scalars :
        /\ Len(xml) < 2
        /\ WeightAll(stack) < MaxValueNodes
        /\ stack' = Append(stack, value)
        /\ UNCHANGED <<kwargs, given, cleaned, compact, indented, xml>>

MakeList ==
    \E k \in 0..Len(stack) :
        /\ Len(xml) < 2
        /\ WeightAll(stack) < MaxValueNodes
        /\ stack' = Append(SubSeq(stack, 1, Len(stack) - k),
                           PyList(SubSeq(stack, Len(stack) - k + 1, Len(stack))))
        /\ UNCHANGED <<kwargs, given, cleaned, compact, indented, xml>>

MakeDict ==
    \E keys \in KeyLists :
        /\ Len(xml) < 2
        /\ WeightAll(stack) < MaxValueNodes
        /\ Len(keys) <= Len(stack)
        /\ stack' = Append(SubSeq(stack, 1, Len(stack) - Len(keys)),
                           PyDict([i \in 1..Len(keys) |->
                                     <<keys[i], stack[Len(stack) - Len(keys) + i]>>]))
        /\ UNCHANGED <<kwargs, given, cleaned, compact, indented, xml>>

GenerateXml ==
    \E root_name \in RootNames :
        /\ Len(xml) < 2
        /\ Len(stack) = 1
        /\ xml' = Append(xml, generate_xml(root_name, stack[1]))
        /\ stack' = <<>>
        /\ UNCHANGED <<kwargs, given, cleaned, compact, indented>>

NextXml == PushScalar \/ MakeList \/ MakeDict \/ GenerateXml

SpecXml == Init /\ [][NextXml]_vars

\* The structure of a value: its mapping keys and sequence positions, with
\* every scalar alike.
RECURSIVE Shape(_)
Shape(data) ==
    IF data.kind = "dict"
    THEN [kind |-> "dict",
          val |-> [i \in 1..Len(data.val) |-> <<data.val[i][1], Shape(data.val[i][2])>>]]
    ELSE IF data.kind = "list"
    THEN [kind |-> "list", val |-> [i \in 1..Len(data.val) |-> Shape(data.val[i])]]
    ELSE [kind |-> "scalar"]

\* C2: two values that differ in structure give, under the same root name,
\* different element trees.
C2_StructureRecoverable ==
    (Len(xml) = 2 /\ xml[1].root_name = xml[2].root_name
       /\ Shape(xml[1].data) # Shape(xml[2].data))
        => xml[1].root # xml[2].root

(***************************************************************************)
(* A feed as the module's own example builds it: a "channel" mapping with  *)
(* a title and, under the key "item", the list of the item mappings on the *)
(* stack.                                                                  *)
(***************************************************************************)
ChannelName == <<"c", "h", "a", "n", "n", "e", "l">>
FeedTitles == {PyStr(<<"A">>), PyStr(<<"B">>), PyInt(1)}

RssAddItem ==
    \E title \in FeedTitles :
        /\ xml = <<>>
        /\ Len(stack) < MaxRssItems
        /\ stack' = Append(stack, PyDict(<< <<TitleKey, title>> >>))
        /\ UNCHANGED <<kwargs, given, cleaned, compact, indented, xml>>

RssGenerate ==
    \E title \in FeedTitles :
        /\ xml = <<>>
        /\ xml' = <<generate_xml(ChannelName,
                       PyDict(<< <<TitleKey, title>>, <<ItemTag, PyList(stack)>> >>))>>
        /\ UNCHANGED <<stack, kwargs, given, cleaned, compact, indented>>

NextRss == RssAddItem \/ RssGenerate

SpecRss == Init /\ [][NextRss]_vars

\* An element with text only.
Leaf(name, scalar) == [tag |-> name, text |-> PyStr(StrOf(scalar)), children |-> <<>>]
\* An element with children only.
Branch(name, children) == [tag |-> name, text |-> None, children |-> children]

RECURSIVE CountTag(_, _)
RECURSIVE CountTagAll(_, _)
CountTag(elem, name) == (IF elem.tag = name THEN 1 ELSE 0) + CountTagAll(elem.children, name)
CountTagAll(elems, name) ==
    IF elems = <<>> THEN 0 ELSE CountTag(Head(elems), name) + CountTagAll(Tail(elems), name)

FeedItems == xml[1].data.val[2][2].val
FeedTitle == xml[1].data.val[1][2]
\* The element built for the i-th list element: an item holding its title leaf.
ItemElement(i) == Branch(ItemTag, <<Leaf(TitleKey, FeedItems[i].val[1][2])>>)

\* C5 as stated: for a list of two mappings under "item", the channel root
\* has as direct children the title leaf and one item per list element, in
\* list order, each holding its own title leaf: two item tags in all, as
\* many as the list has elements.
C5_ItemsUnderChannel ==
    (xml # <<>> /\ Len(FeedItems) = 2) =>
        /\ xml[1].root
             = Branch(ChannelName,
                      <<Leaf(TitleKey, FeedTitle)>>
                        \o [i \in 1..Len(FeedItems) |-> ItemElement(i)])
        /\ CountTag(xml[1].root, ItemTag) = Len(FeedItems)

\* C5 as amended: the channel root has as direct children the title leaf and
\* one item element for the key "item"; that element holds one item per list
\* element, in list order, each holding its own title leaf: n + 1 item tags
\* in all for a list of n elements (three for two).
C5_ItemsUnderKeyElement ==
    xml # <<>> =>
        /\ xml[1].root
             = Branch(ChannelName,
                      <<Leaf(TitleKey, FeedTitle),
                        Branch(ItemTag, [i \in 1..Len(FeedItems) |-> ItemElement(i)])>>)
        /\ CountTag(xml[1].root, ItemTag) = Len(FeedItems) + 1

C5_Witness ==
    /\ xml # <<>>
    /\ Len(FeedItems) = 2
    /\ FeedItems[1] # FeedItems[2]
    /\ CountTag(xml[1].root, ItemTag) = 3
    /\ Len(xml[1].root.children) = 2

====
